---- MODULE Spec2Model ----
(***************************************************************************)
(* Model of the Mermaid checker scripts of icode-plugin:                   *)
(*   - extractMermaidBlocks, the line scanner shared (same text) by         *)
(*     mermaid-check.mjs (src/unnamed/part_001) and extract.mjs             *)
(*     (second half of agents/mermaid-checker/scripts/validate.mjs);        *)
(*   - detectDiagramType of mermaid-check.mjs, extract.mjs, validate.mjs;   *)
(*   - main of mermaid-check.mjs, the single-process checker;               *)
(*   - main of check.mjs, the pipeline checker that runs extract.mjs and    *)
(*     validate.mjs as subprocesses.                                        *)
(*                                                                         *)
(* Text is a sequence of tokens: FENCE is the three backticks, MERMAID the *)
(* word "mermaid", SP one whitespace character, TXT any other text, NL the *)
(* newline.  split, trim and join work on these sequences the way the      *)
(* JavaScript string methods work on characters.                           *)
(*                                                                         *)
(* executionTime/totalTime are not modelled: no modelled branch reads them.*)
(***************************************************************************)
EXTENDS Integers, Sequences, FiniteSets, TLC

VARIABLES
    \* --- extractMermaidBlocks applied to one document text
    content,        \* the document text given to extractMermaidBlocks
    extracted,      \* the returned array of blocks (<<>> before the call)
    xpc,            \* "idle" | "ready" | "done"
    \* --- detectDiagramType applied to one block code
    dcode,          \* the code given to detectDiagramType
    dtype,          \* what detectDiagramType of mermaid-check.mjs returned
    dtypeScript,    \* what detectDiagramType of extract.mjs returned
    dtypeValidate,  \* what detectDiagramType of validate.mjs returned
    dpc,            \* which of them ("checker", "script", "validate") has been called
    \* --- mermaid-check.mjs (single-process checker)
    mcArgs,         \* process.argv.slice(2)
    mcPc,           \* position in main / validateMarkdownFile
    validatorReady, \* setupMermaidValidator has returned a validator
    globCall,       \* the glob(pattern, {cwd}) call main made, NoCall before
    filePaths,      \* main: filePaths
    fileIdx,        \* main: number of filePaths entries already iterated
    mcBlocks,       \* validateMarkdownFile: blocks
    mcBlockIdx,     \* validateMarkdownFile: blocks already iterated
    fileResult,     \* validateMarkdownFile: results (the report being built)
    results,        \* main: results
    failedFiles,    \* paths whose processing ended in the catch of main
    usageShown,     \* main printed the usage text
    validatorThrew, \* history: an exception left the validate function
    mcExit,         \* process exit code, -1 while running
    \* --- check.mjs (pipeline checker)
    ckArgs,         \* process.argv.slice(2)
    ckDoc,          \* the target document: "missing" | "unreadable" | "ok"
    ckPc,           \* position in main
    extractResult,  \* parsed stdout of extract.mjs
    blocks,         \* main: blocks
    blockPos,       \* main: entries of extractResult.blocks already iterated
    validCount,     \* main: validCount
    invalidCount,   \* main: invalidCount
    result,         \* main: result (the report), NoReport until built
    docBlockCount,  \* history: blocks extract.mjs found in the document, -1 before it ran
    syntaxErrors,   \* history: index of each block validate.mjs reported valid=false for
    opError,        \* history: the operational error the run met, "none" if none
    setupRuns,      \* number of setupMermaidValidator runs in validate.mjs subprocesses
    outDir,         \* the output directory on disk: whether it exists, and its files
    preFiles,       \* history: the files the output directory held when the run began
    rmCalls,        \* number of fs.rmSync(outputDir) calls made by cleanup
    ckExit          \* process exit code, -1 while running

dvars == <<dcode, dtype, dtypeScript, dtypeValidate, dpc>>
xvars == <<content, extracted, xpc, dvars>>
mcvars == <<mcArgs, mcPc, validatorReady, globCall, filePaths, fileIdx, mcBlocks,
            mcBlockIdx, fileResult, results, failedFiles, usageShown,
            validatorThrew, mcExit>>
ckvars == <<ckArgs, ckDoc, ckPc, extractResult, blocks, blockPos, validCount,
            invalidCount, result, docBlockCount, syntaxErrors, opError, setupRuns,
            outDir, preFiles, rmCalls, ckExit>>
vars == <<xvars, mcvars, ckvars>>

-----------------------------------------------------------------------------
(* Bounds *)

\* lines per document in the extraction specification
MaxLines == 5
\* lines per document read by the two checkers
MaxDocLines == 4
\* paths one glob call matches
MaxFiles == 2
\* tokens per block code in the diagram-type specification
MaxCodeLen == 3

-----------------------------------------------------------------------------
(* Text *)

SP == "SP"
FENCE == "FENCE"
MERMAID == "mermaid"
TXT == "x"
NL == "\n"

\* The kinds of line a document is made of.
LineSet ==
    { <<>>,                         \* empty line
      <<TXT>>,                      \* ordinary text
      <<FENCE, MERMAID>>,           \* open fence
      <<SP, FENCE, MERMAID, SP>>,   \* open fence, indented, trailing blank (or \r)
      <<FENCE>>,                    \* close fence
      <<SP, FENCE, SP>>,            \* close fence, indented, trailing blank
      <<FENCE, TXT>> }              \* a fence of another language (js)

\* Array.prototype.join('\n')
RECURSIVE join(_)
join(ls) ==
    IF Len(ls) = 0 THEN <<>>
    ELSE IF Len(ls) = 1 THEN ls[1]
    ELSE ls[1] \o <<NL>> \o join(Tail(ls))

\* String.prototype.split('\n'): always at least one (possibly empty) line
RECURSIVE splitFrom(_, _, _)
splitFrom(s, i, cur) ==
    IF i > Len(s) THEN <<cur>>
    ELSE IF s[i] = NL THEN <<cur>> \o splitFrom(s, i + 1, <<>>)
    ELSE splitFrom(s, i + 1, Append(cur, s[i]))

split(s) == splitFrom(s, 1, <<>>)

IsWhite(t) == t = SP

RECURSIVE trimStart(_)
trimStart(l) ==
    IF Len(l) > 0 /\ IsWhite(l[1]) THEN trimStart(Tail(l)) ELSE l

RECURSIVE trimEnd(_)
trimEnd(l) ==
    IF Len(l) > 0 /\ IsWhite(l[Len(l)]) THEN trimEnd(SubSeq(l, 1, Len(l) - 1)) ELSE l

\* String.prototype.trim
trim(l) == trimEnd(trimStart(l))

OpenMarker == <<FENCE, MERMAID>>    \* the fence followed by mermaid
CloseMarker == <<FENCE>>            \* the fence alone

-----------------------------------------------------------------------------
(* extractMermaidBlocks *)

\* the locals of extractMermaidBlocks before the loop
ScanInit ==
    [ blocks |-> <<>>, inMermaidBlock |-> FALSE, blockStart |-> 0,
      blockContent |-> <<>>, blockIndex |-> 0 ]

\* a plausible slip: blockIndex is not incremented
ScanStep_NoIndexIncr(st, line, i) ==
    IF trim(line) = OpenMarker
    THEN [st EXCEPT !.inMermaidBlock = TRUE, !.blockStart = i + 1,
                    !.blockContent = <<>>]
    ELSE IF st.inMermaidBlock /\ trim(line) = CloseMarker
    THEN [st EXCEPT !.inMermaidBlock = FALSE,
                    !.blocks = Append(st.blocks,
                        [ code |-> join(st.blockContent),
                          lineStart |-> st.blockStart,
                          lineEnd |-> i,
                          index |-> st.blockIndex ]),
                    !.blockContent = <<>>]
    ELSE IF st.inMermaidBlock
    THEN [st EXCEPT !.blockContent = Append(st.blockContent, line)]
    ELSE st

\* a plausible slip: blockStart is the 0-based index i, the + 1 forgotten
ScanStep_StartZeroBased(st, line, i) ==
    IF trim(line) = OpenMarker
    THEN [st EXCEPT !.inMermaidBlock = TRUE, !.blockStart = i,
                    !.blockContent = <<>>]
    ELSE IF st.inMermaidBlock /\ trim(line) = CloseMarker
    THEN [st EXCEPT !.inMermaidBlock = FALSE,
                    !.blocks = Append(st.blocks,
                        [ code |-> join(st.blockContent),
                          lineStart |-> st.blockStart,
                          lineEnd |-> i,
                          index |-> st.blockIndex ]),
                    !.blockIndex = st.blockIndex + 1,
                    !.blockContent = <<>>]
    ELSE IF st.inMermaidBlock
    THEN [st EXCEPT !.blockContent = Append(st.blockContent, line)]
    ELSE st

\* a plausible slip: blockStart is the 1-based number of the line after the fence
ScanStep_StartAfterFence(st, line, i) ==
    IF trim(line) = OpenMarker
    THEN [st EXCEPT !.inMermaidBlock = TRUE, !.blockStart = i + 2,
                    !.blockContent = <<>>]
    ELSE IF st.inMermaidBlock /\ trim(line) = CloseMarker
    THEN [st EXCEPT !.inMermaidBlock = FALSE,
                    !.blocks = Append(st.blocks,
                        [ code |-> join(st.blockContent),
                          lineStart |-> st.blockStart,
                          lineEnd |-> i,
                          index |-> st.blockIndex ]),
                    !.blockIndex = st.blockIndex + 1,
                    !.blockContent = <<>>]
    ELSE IF st.inMermaidBlock
    THEN [st EXCEPT !.blockContent = Append(st.blockContent, line)]
    ELSE st

\* one iteration of the for loop: line = lines[i], i the 0-based loop index
ScanStep(st, line, i) ==
    IF trim(line) = OpenMarker
    THEN [st EXCEPT !.inMermaidBlock = TRUE, !.blockStart = i + 1,
                    !.blockContent = <<>>]
    ELSE IF st.inMermaidBlock /\ trim(line) = CloseMarker
    THEN [st EXCEPT !.inMermaidBlock = FALSE,
                    !.blocks = Append(st.blocks,
                        [ code |-> join(st.blockContent),
                          lineStart |-> st.blockStart,
                          lineEnd |-> i,
                          index |-> st.blockIndex ]),
                    !.blockIndex = st.blockIndex + 1,
                    !.blockContent = <<>>]
    ELSE IF st.inMermaidBlock
    THEN [st EXCEPT !.blockContent = Append(st.blockContent, line)]
    ELSE st

\* the for loop from index i on; lines[i] of the code is lines[i + 1] here
RECURSIVE scanFrom(_, _, _)
scanFrom(lines, i, st) ==
    IF i < Len(lines) THEN scanFrom(lines, i + 1, ScanStep(st, lines[i + 1], i))
    ELSE st

\* a plausible slip: a block still open at the end of the document is emitted
extractMermaidBlocks_FlushAtEnd(c) ==
    LET st == scanFrom(split(c), 0, ScanInit)
    IN IF st.inMermaidBlock
       THEN Append(st.blocks, [ code |-> join(st.blockContent),
                                lineStart |-> st.blockStart,
                                lineEnd |-> Len(split(c)),
                                index |-> st.blockIndex ])
       ELSE st.blocks

extractMermaidBlocks(c) == scanFrom(split(c), 0, ScanInit).blocks

-----------------------------------------------------------------------------
(* Documents *)

DocsUpTo(n, kinds) == { join(ls) : ls \in UNION { [1..k -> kinds] : k \in 0..n } }

Contents == DocsUpTo(MaxLines, LineSet)

\* the documents the checkers read: text, open fences and close fences
CheckerDocs == DocsUpTo(MaxDocLines, { <<TXT>>, OpenMarker, CloseMarker })

Range(f) == { f[i] : i \in DOMAIN f }

-----------------------------------------------------------------------------
(* The validator returned by setupMermaidValidator *)

\* what mermaid.parse(code) does: resolves, or rejects with an Error that has a
\* message, an Error whose message is empty, a string, or null/undefined
ParseOutcomes == { "ok", "throwError", "throwEmptyMessage", "throwString", "throwNull" }

\* async (code) => { try { await mermaid.parse(code) ... } catch (error) { ... } }
\* threw: an exception leaves the function (error.message read on null/undefined)
validator(o) ==
    IF o = "ok" THEN [threw |-> FALSE, valid |-> TRUE, error |-> "null"]
    ELSE IF o = "throwError" THEN [threw |-> FALSE, valid |-> FALSE, error |-> "message"]
    ELSE IF o \in { "throwEmptyMessage", "throwString" }
    THEN [threw |-> FALSE, valid |-> FALSE, error |-> "toString"]
    ELSE [threw |-> TRUE, valid |-> FALSE, error |-> "TypeError"]

-----------------------------------------------------------------------------
(* Idle values of the variable groups a specification does not use *)

NoCall == [pattern |-> "none", cwd |-> "none"]
NoReport == [built |-> FALSE]

DIdle ==
    /\ dcode = <<>> /\ dtype = "" /\ dtypeScript = "" /\ dtypeValidate = ""
    /\ dpc = {}
XIdle == content = <<>> /\ extracted = <<>> /\ xpc = "idle" /\ DIdle

McIdle ==
    /\ mcArgs = <<>> /\ mcPc = "idle" /\ validatorReady = FALSE
    /\ globCall = NoCall /\ filePaths = <<>> /\ fileIdx = 0
    /\ mcBlocks = <<>> /\ mcBlockIdx = 0 /\ fileResult = NoReport
    /\ results = <<>> /\ failedFiles = {} /\ mcExit = -1
    /\ usageShown = FALSE /\ validatorThrew = FALSE

CkIdle ==
    /\ ckArgs = <<>> /\ ckDoc = "missing" /\ ckPc = "idle"
    /\ extractResult = NoReport /\ blocks = <<>> /\ blockPos = 0
    /\ validCount = 0 /\ invalidCount = 0 /\ result = NoReport
    /\ docBlockCount = -1 /\ syntaxErrors = {} /\ opError = "none"
    /\ setupRuns = 0 /\ outDir = [exists |-> FALSE, files |-> {}] /\ preFiles = {}
    /\ rmCalls = 0 /\ ckExit = -1

-----------------------------------------------------------------------------
(* Specification of extractMermaidBlocks as a function of the document text *)

ExtractInit ==
    /\ content \in Contents /\ extracted = <<>> /\ xpc = "ready"
    /\ DIdle /\ McIdle /\ CkIdle

\* const blocks = extractMermaidBlocks(content)
Extract ==
    /\ xpc = "ready"
    /\ extracted' = extractMermaidBlocks(content)
    /\ xpc' = "done"
    /\ UNCHANGED <<content, dvars, mcvars, ckvars>>

ExtractNext == Extract

SpecExtract == ExtractInit /\ [][ExtractNext]_vars

-----------------------------------------------------------------------------
(* Diagram-type inference *)

\* A block code is a sequence of pieces: a piece is either a run of word
\* characters (a keyword, a digit, an underscore) or one other character.
Keywords == { "graph", "sequenceDiagram", "classDiagram", "stateDiagram",
              "erDiagram", "journey", "pie", "constructor" }
Digits == { "7" }
Underscore == { "_" }
OtherChars == { " ", "\n", "-" }
CodePieces == Keywords \cup Digits \cup Underscore \cup OtherChars

\* \w of the regular expression: [A-Za-z0-9_]
IsWordPiece(t) == t \in Keywords \cup Digits \cup Underscore

\* the piece's first character is a letter
StartsWithLetter(t) == t \in Keywords

\* a plausible slip: the pattern without its ^ anchor finds the first word
\* anywhere in the code
RECURSIVE leadingWord_Unanchored(_)
leadingWord_Unanchored(code) ==
    IF code = <<>> THEN ""
    ELSE IF IsWordPiece(Head(code))
         THEN Head(code) \o leadingWord_Unanchored(
                  IF Len(code) > 1 /\ IsWordPiece(code[2]) THEN Tail(code) ELSE <<>>)
         ELSE leadingWord_Unanchored(Tail(code))

\* code.match(/^(\w+)/): the longest run of word characters at the very start
\* of the code, "" when the match is null
RECURSIVE leadingWord(_)
leadingWord(code) ==
    IF code = <<>> \/ ~IsWordPiece(Head(code)) THEN ""
    ELSE Head(code) \o leadingWord(Tail(code))

\* the alias table of mermaid-check.mjs
typeMap ==
    [ k \in { "graph", "sequenceDiagram", "classDiagram", "stateDiagram",
              "erDiagram", "journey" } |->
        CASE k = "graph" -> "flowchart"
          [] k = "sequenceDiagram" -> "sequence"
          [] k = "classDiagram" -> "class"
          [] k = "stateDiagram" -> "state"
          [] k = "erDiagram" -> "er"
          [] k = "journey" -> "journey map" ]

\* the alias table of extract.mjs
typeMapScript == [ typeMap EXCEPT !["journey"] = "journey-map" ]

\* property names every object literal inherits from Object.prototype; the
\* inherited value is a function, written here as the text it prints as
InheritedKeys == { "constructor" }
InheritedValue == "[Function: Object]"

\* typeMap[type] || type
lookup(map, type) ==
    IF type \in DOMAIN map THEN map[type]
    ELSE IF type \in InheritedKeys THEN InheritedValue
    ELSE type

\* detectDiagramType of mermaid-check.mjs
detectDiagramType(code) ==
    LET type == leadingWord(code)
    IN IF type # "" THEN lookup(typeMap, type) ELSE "unknown"

\* detectDiagramType of extract.mjs
detectDiagramTypeScript(code) ==
    LET type == leadingWord(code)
    IN IF type # "" THEN lookup(typeMapScript, type) ELSE "unknown"

\* the alias table of validate.mjs
typeMapValidate == [ typeMap EXCEPT !["journey"] = "journey-map" ]

\* detectDiagramType of validate.mjs
detectDiagramTypeValidate(code) ==
    LET type == leadingWord(code)
    IN IF type # "" THEN lookup(typeMapValidate, type) ELSE "unknown"

RECURSIVE CodesUpTo(_)
CodesUpTo(n) ==
    IF n = 0 THEN { <<>> }
    ELSE LET shorter == CodesUpTo(n - 1)
         IN shorter \cup { Append(c, t) : c \in { x \in shorter : Len(x) = n - 1 },
                                          t \in CodePieces }

DetectInit ==
    /\ dcode \in CodesUpTo(MaxCodeLen)
    /\ dtype = "" /\ dtypeScript = "" /\ dtypeValidate = "" /\ dpc = {}
    /\ content = <<>> /\ extracted = <<>> /\ xpc = "idle"
    /\ McIdle /\ CkIdle

\* const diagramType = detectDiagramType(block.code)   (mermaid-check.mjs)
DetectChecker ==
    /\ "checker" \notin dpc
    /\ dtype' = detectDiagramType(dcode)
    /\ dpc' = dpc \cup { "checker" }
    /\ UNCHANGED <<dcode, dtypeScript, dtypeValidate, content, extracted, xpc,
                   mcvars, ckvars>>

\* const diagramType = detectDiagramType(block.code)   (extract.mjs)
DetectScript ==
    /\ "script" \notin dpc
    /\ dtypeScript' = detectDiagramTypeScript(dcode)
    /\ dpc' = dpc \cup { "script" }
    /\ UNCHANGED <<dcode, dtype, dtypeValidate, content, extracted, xpc,
                   mcvars, ckvars>>

\* diagramType: detectDiagramType(code)   (validate.mjs)
DetectValidate ==
    /\ "validate" \notin dpc
    /\ dtypeValidate' = detectDiagramTypeValidate(dcode)
    /\ dpc' = dpc \cup { "validate" }
    /\ UNCHANGED <<dcode, dtype, dtypeScript, content, extracted, xpc,
                   mcvars, ckvars>>

DetectNext == DetectChecker \/ DetectScript \/ DetectValidate

SpecDetect == DetectInit /\ [][DetectNext]_vars

\* C12: detectDiagramType returns "unknown" for every code that does not start
\* with a word character (a letter, a digit or an underscore): the empty code
\* and every code whose first character is none of these.
C12_UnknownWithoutLeadingWord ==
    LET noWord == dcode = <<>> \/ ~IsWordPiece(Head(dcode))
    IN /\ ("checker" \in dpc /\ noWord) => dtype = "unknown"
       /\ ("script" \in dpc /\ noWord) => dtypeScript = "unknown"

\* C12 as stated: "unknown" for every code whose first character is not a letter
C12_UnknownWithoutLeadingLetter ==
    LET noLetter == dcode = <<>> \/ ~StartsWithLetter(Head(dcode))
    IN /\ ("checker" \in dpc /\ noLetter) => dtype = "unknown"
       /\ ("script" \in dpc /\ noLetter) => dtypeScript = "unknown"

\* a keyword preceded by one non-word character: both functions said "unknown"
C12_Witness ==
    /\ { "checker", "script" } \subseteq dpc
    /\ Len(dcode) > 1 /\ ~IsWordPiece(dcode[1]) /\ dcode[2] = "graph"
    /\ dtype = "unknown" /\ dtypeScript = "unknown"

\* C21: for every block code, detectDiagramType of the extraction script, of
\* the validation script and of the single-process checker return the same
\* label.
C21_SameLabelEverywhere ==
    /\ { "checker", "script" } \subseteq dpc => dtype = dtypeScript
    /\ { "checker", "validate" } \subseteq dpc => dtype = dtypeValidate
    /\ { "script", "validate" } \subseteq dpc => dtypeScript = dtypeValidate

-----------------------------------------------------------------------------
(* Reference reading of a document, independent of the scanner *)

Lines == split(content)
IsOpen(k) == trim(Lines[k]) = OpenMarker
IsClose(k) == trim(Lines[k]) = CloseMarker
OpenLines == { k \in 1..Len(Lines) : IsOpen(k) }

\* a close-fence line that ends a block: some open-fence line before it has no
\* close-fence line in between
ClosingLines ==
    { k \in 1..Len(Lines) :
        /\ IsClose(k)
        /\ \E a \in 1..(k - 1) : IsOpen(a) /\ \A m \in (a + 1)..(k - 1) : ~IsClose(m) }

\* the 1-based number of the open-fence line of the block closed at line k
OpenerOf(k) == CHOOSE a \in OpenLines : a < k /\ \A b \in OpenLines : b < k => b <= a

\* the j-th smallest element of a set of numbers
Nth(S, j) == CHOOSE k \in S : Cardinality({ m \in S : m <= k }) = j

\* every open-fence line is closed by its own close-fence line
WellFormed ==
    \A k \in OpenLines :
        \E m \in (k + 1)..Len(Lines) :
            IsClose(m) /\ \A j \in (k + 1)..(m - 1) : ~IsOpen(j)

\* the first close-fence line after line k
CloseOf(k) == CHOOSE m \in (k + 1)..Len(Lines) :
                 IsClose(m) /\ \A j \in (k + 1)..(m - 1) : ~IsClose(j)

-----------------------------------------------------------------------------
(* Claims on extractMermaidBlocks *)

\* C7: for a document made of N well-formed fences, extractMermaidBlocks returns
\* exactly N blocks, the j-th with index j-1 and with the text between the j-th
\* open-fence line and its close-fence line.
C7_WellFormedCount ==
    (xpc = "done" /\ WellFormed) =>
        /\ Len(extracted) = Cardinality(OpenLines)
        /\ \A j \in 1..Len(extracted) :
            /\ extracted[j].index = j - 1
            /\ LET o == Nth(OpenLines, j)
               IN extracted[j].code = join(SubSeq(Lines, o + 1, CloseOf(o) - 1))

C7_Witness ==
    xpc = "done" /\ WellFormed /\ Cardinality(OpenLines) = 2 /\ Len(extracted) = 2

C9_LineEndIsCloseLine ==
    xpc = "done" =>
        \A j \in 1..Len(extracted) :
            extracted[j].lineEnd = Nth(ClosingLines, j)

\* C10: every returned block has lineStart <= lineEnd.
C10_StartLeEnd ==
    xpc = "done" =>
        \A j \in 1..Len(extracted) : extracted[j].lineStart <= extracted[j].lineEnd

\* a block with no content line, and a block whose open fence was repeated
C10_Witness ==
    /\ xpc = "done" /\ Len(extracted) = 2
    /\ extracted[1].code = <<>> /\ extracted[1].lineStart = extracted[1].lineEnd
    /\ IsOpen(3) /\ IsOpen(4) /\ extracted[2].lineStart <= extracted[2].lineEnd

\* every open-fence line but the last is closed by its own close-fence line,
\* and no close-fence line follows the last open-fence line
LastOpen == CHOOSE k \in OpenLines : \A b \in OpenLines : b <= k
OnlyLastUnterminated ==
    /\ OpenLines # {}
    /\ \A k \in OpenLines \ { LastOpen } :
        \E m \in (k + 1)..Len(Lines) :
            IsClose(m) /\ \A j \in (k + 1)..(m - 1) : ~IsOpen(j)
    /\ \A m \in (LastOpen + 1)..Len(Lines) : ~IsClose(m)

\* C11: when only the last open-fence line is never closed, extractMermaidBlocks
\* returns one block fewer than there are open-fence lines, each from a closed
\* fence, and nothing for the unterminated one.
C11_UnterminatedDropped ==
    (xpc = "done" /\ OnlyLastUnterminated) =>
        /\ Len(extracted) = Cardinality(OpenLines) - 1
        /\ \A j \in 1..Len(extracted) :
            /\ extracted[j].index = j - 1
            /\ extracted[j].lineStart = Nth(OpenLines, j)
            /\ extracted[j].lineStart < LastOpen

\* one closed block, then an open fence with content and no close
C11_Witness ==
    /\ xpc = "done" /\ OnlyLastUnterminated
    /\ Cardinality(OpenLines) = 2 /\ Len(extracted) = 1
    /\ Len(Lines) > LastOpen

\* the line that took the scanner from outside to inside for the block closed
\* at line k: the first open-fence line after the previous block's close
EnterLineOf(k) ==
    CHOOSE a \in OpenLines :
        /\ a < k
        /\ \A c \in ClosingLines : c < k => c < a
        /\ \A b \in OpenLines : (b < a) => \E c \in ClosingLines : b < c /\ c < a

\* C17: the emitted code is the newline-join of all the lines between the line
\* that took the scanner from outside to inside and the closing fence line.
C17_CodeIsAllLinesInside ==
    xpc = "done" =>
        \A j \in 1..Len(extracted) :
            LET k == Nth(ClosingLines, j)
            IN extracted[j].code = join(SubSeq(Lines, EnterLineOf(k) + 1, k - 1))

-----------------------------------------------------------------------------
(* mermaid-check.mjs: the single-process checker *)

McArgSets ==
    { <<>>, <<"doc.md">>, <<"-q", "doc.md">>, <<"--help">>, <<"-h">>,
      <<"--dir", "docs">>, <<"--dir", "docs", "--recursive">> }

\* a.startsWith('-')
startsWithDash(a) == a \in { "-q", "--quiet", "-h", "--help", "--dir", "--recursive" }

\* args.filter(a => !a.startsWith('-'))
filteredArgs == SelectSeq(mcArgs, LAMBDA a : ~startsWithDash(a))

\* the results object validateMarkdownFile starts from
newFileResult(bs) ==
    [ built |-> TRUE, totalDiagrams |-> Len(bs), validCount |-> 0,
      invalidCount |-> 0, diagrams |-> <<>> ]

\* a plausible slip: the else is missing, invalidCount grows on every block
pushDiagram_CountBoth(res, block, r) ==
    [ res EXCEPT
        !.diagrams = Append(res.diagrams,
            [ code |-> block.code, lineStart |-> block.lineStart,
              lineEnd |-> block.lineEnd, index |-> block.index,
              valid |-> r.valid, error |-> r.error ]),
        !.validCount = IF r.valid THEN res.validCount + 1 ELSE res.validCount,
        !.invalidCount = res.invalidCount + 1 ]

\* a plausible slip: the record is put at the front (unshift for push)
pushDiagram_Unshift(res, block, r) ==
    [ res EXCEPT
        !.diagrams = <<[ code |-> block.code, lineStart |-> block.lineStart,
                         lineEnd |-> block.lineEnd, index |-> block.index,
                         valid |-> r.valid, error |-> r.error ]>> \o res.diagrams,
        !.validCount = IF r.valid THEN res.validCount + 1 ELSE res.validCount,
        !.invalidCount = IF r.valid THEN res.invalidCount ELSE res.invalidCount + 1 ]

\* the body of the block loop of validateMarkdownFile after the validator returned r
pushDiagram(res, block, r) ==
    [ res EXCEPT
        !.diagrams = Append(res.diagrams,
            [ code |-> block.code, lineStart |-> block.lineStart,
              lineEnd |-> block.lineEnd, index |-> block.index,
              valid |-> r.valid, error |-> r.error ]),
        !.validCount = IF r.valid THEN res.validCount + 1 ELSE res.validCount,
        !.invalidCount = IF r.valid THEN res.invalidCount ELSE res.invalidCount + 1 ]

\* what main keeps of a pushed report: the fields it reads again (hasErrors,
\* printSummary) and the index of each record
Summary(res) ==
    [ totalDiagrams |-> res.totalDiagrams, validCount |-> res.validCount,
      invalidCount |-> res.invalidCount,
      indices |-> [ i \in 1..Len(res.diagrams) |-> res.diagrams[i].index ] ]

\* results.some(r => r.invalidCount > 0)
hasErrors(rs) == \E i \in 1..Len(rs) : rs[i].invalidCount > 0

\* process.exit(hasErrors ? 1 : 0)
exitCodeFor(rs) == IF hasErrors(rs) THEN 1 ELSE 0

McInit ==
    /\ mcArgs \in McArgSets /\ mcPc = "start" /\ validatorReady = FALSE
    /\ globCall = NoCall /\ filePaths = <<>> /\ fileIdx = 0
    /\ mcBlocks = <<>> /\ mcBlockIdx = 0 /\ fileResult = NoReport
    /\ results = <<>> /\ failedFiles = {} /\ mcExit = -1
    /\ usageShown = FALSE /\ validatorThrew = FALSE
    /\ XIdle /\ CkIdle

McExitWith(code) == mcExit' = code /\ mcPc' = "exited"

\* main: no arguments, usage, process.exit(2)
MC_Usage ==
    /\ mcPc = "start" /\ Len(mcArgs) = 0
    /\ usageShown' = TRUE
    /\ McExitWith(2)
    /\ UNCHANGED <<mcArgs, validatorThrew,
                   validatorReady, globCall, filePaths, fileIdx, mcBlocks,
                   mcBlockIdx, fileResult, results, failedFiles, xvars, ckvars>>

\* a plausible slip: the setup is put off until a block needs the validator
MC_Setup_PutOff ==
    /\ mcPc = "start" /\ Len(mcArgs) > 0
    /\ mcPc' = "glob"
    /\ UNCHANGED <<mcArgs, usageShown, validatorThrew, validatorReady, globCall,
                   filePaths, fileIdx, mcBlocks, mcBlockIdx, fileResult, results,
                   failedFiles, mcExit, xvars, ckvars>>

\* main: const validator = await setupMermaidValidator(); a failed import of
\* mermaid rejects main, whose catch exits with 2
MC_Setup ==
    /\ mcPc = "start" /\ Len(mcArgs) > 0
    /\ \E ok \in BOOLEAN :
        IF ok THEN validatorReady' = TRUE /\ mcPc' = "glob" /\ mcExit' = mcExit
        ELSE validatorReady' = FALSE /\ McExitWith(2)
    /\ UNCHANGED <<mcArgs, usageShown, validatorThrew,
                   globCall, filePaths, fileIdx, mcBlocks, mcBlockIdx,
                   fileResult, results, failedFiles, xvars, ckvars>>

\* main: the argument parse, the glob call and the empty-match exit.  glob
\* rejects a pattern that is undefined (no argument left after the filter),
\* which ends in the catch of main.
MC_Glob ==
    /\ mcPc = "glob"
    /\ IF Len(filteredArgs) = 0
       THEN /\ McExitWith(2)
            /\ UNCHANGED <<globCall, filePaths>>
       ELSE /\ globCall' =
                 IF filteredArgs[1] = "--dir"
                 THEN [ pattern |-> IF "--recursive" \in Range(filteredArgs)
                                    THEN "**/*.md" ELSE "*.md",
                        cwd |-> filteredArgs[2] ]
                 ELSE [ pattern |-> filteredArgs[1], cwd |-> "none" ]
            /\ \E n \in 0..MaxFiles :
                /\ filePaths' = [ i \in 1..n |-> i ]
                /\ IF n = 0 THEN McExitWith(2)
                   ELSE mcPc' = "files" /\ mcExit' = mcExit
    /\ UNCHANGED <<mcArgs, usageShown, validatorThrew,
                   validatorReady, fileIdx, mcBlocks, mcBlockIdx,
                   fileResult, results, failedFiles, xvars, ckvars>>

\* validateMarkdownFile: readFileSync, extractMermaidBlocks, the fresh results
\* object; a path that cannot be read throws into the catch of main's loop
MC_ReadFile ==
    /\ mcPc = "files" /\ fileIdx < Len(filePaths)
    /\ \/ /\ failedFiles' = failedFiles \cup { filePaths[fileIdx + 1] }
          /\ fileIdx' = fileIdx + 1
          /\ UNCHANGED <<mcPc, mcBlocks, mcBlockIdx, fileResult>>
       \/ \E c \in CheckerDocs :
          /\ mcBlocks' = extractMermaidBlocks(c)
          /\ mcBlockIdx' = 0
          /\ fileResult' = newFileResult(extractMermaidBlocks(c))
          /\ mcPc' = "blocks"
          /\ UNCHANGED <<failedFiles, fileIdx>>
    /\ UNCHANGED <<mcArgs, usageShown, validatorThrew,
                   validatorReady, globCall, filePaths, results, mcExit,
                   xvars, ckvars>>

\* validateMarkdownFile: one iteration of for (const block of blocks); an
\* exception out of the validator ends in the catch of main's loop
MC_ValidateBlock ==
    /\ mcPc = "blocks" /\ mcBlockIdx < Len(mcBlocks)
    /\ \E o \in ParseOutcomes :
        LET r == validator(o)
        IN /\ validatorThrew' = (validatorThrew \/ r.threw)
           /\ IF r.threw
              THEN /\ failedFiles' = failedFiles \cup { filePaths[fileIdx + 1] }
                   /\ fileIdx' = fileIdx + 1
                   /\ mcPc' = "files"
                   /\ fileResult' = NoReport
                   /\ mcBlocks' = <<>> /\ mcBlockIdx' = 0
              ELSE /\ fileResult' = pushDiagram(fileResult, mcBlocks[mcBlockIdx + 1], r)
                   /\ mcBlockIdx' = mcBlockIdx + 1
                   /\ UNCHANGED <<failedFiles, fileIdx, mcPc, mcBlocks>>
    /\ UNCHANGED <<mcArgs, usageShown,
                   validatorReady, globCall, filePaths, results, mcExit,
                   xvars, ckvars>>

\* validateMarkdownFile returns results; main: results.push(result)
MC_ReturnFile ==
    /\ mcPc = "blocks" /\ mcBlockIdx = Len(mcBlocks)
    /\ results' = Append(results, Summary(fileResult))
    /\ fileIdx' = fileIdx + 1
    /\ mcPc' = "files"
    /\ fileResult' = NoReport
    /\ mcBlocks' = <<>> /\ mcBlockIdx' = 0
    /\ UNCHANGED <<mcArgs, usageShown, validatorThrew,
                   validatorReady, globCall, filePaths, failedFiles, mcExit,
                   xvars, ckvars>>

\* main: after the loop, process.exit(hasErrors ? 1 : 0)
MC_Exit ==
    /\ mcPc = "files" /\ fileIdx = Len(filePaths)
    /\ McExitWith(exitCodeFor(results))
    /\ UNCHANGED <<mcArgs, usageShown, validatorThrew,
                   validatorReady, globCall, filePaths, fileIdx, mcBlocks,
                   mcBlockIdx, fileResult, results, failedFiles, xvars, ckvars>>

McNext ==
    \/ MC_Usage \/ MC_Setup \/ MC_Glob \/ MC_ReadFile
    \/ MC_ValidateBlock \/ MC_ReturnFile \/ MC_Exit

SpecMC == McInit /\ [][McNext]_vars

\* C14: with --dir <path> the documents are the .md files directly inside
\* <path> (with --recursive also those below it), <path> is not itself used as
\* the pattern.
C14_DirSelectsDirectory ==
    (Len(mcArgs) >= 2 /\ mcArgs[1] = "--dir" /\ globCall # NoCall) =>
        globCall = [ pattern |-> IF "--recursive" \in Range(mcArgs)
                                 THEN "**/*.md" ELSE "*.md",
                     cwd |-> mcArgs[2] ]

\* C15: with --help or -h the usage text is printed and the process exits with
\* a non-success code, before any validator setup or document check.
C15_HelpLikeNoArguments ==
    (mcArgs \in { <<"--help">>, <<"-h">> }) =>
        /\ ~validatorReady /\ globCall = NoCall
        /\ mcPc = "exited" => (usageShown /\ mcExit # 0)

\* C16: no exception ever leaves the validate function.
C16_ValidateNeverThrows == ~validatorThrew

\* C18: the validator setup has run before main matches or reads any document,
\* so every report, a zero-block report included, is produced after it.
C18_SetupBeforeDocuments ==
    (globCall # NoCall \/ mcPc \in { "glob", "files", "blocks" } \/ Len(results) > 0)
        => validatorReady

\* C18 as stated: a run whose documents hold no block never ran the setup
C18_NoSetupForZeroBlocks ==
    (mcPc = "exited" /\ Len(results) > 0
        /\ \A i \in 1..Len(results) : results[i].totalDiagrams = 0)
    => ~validatorReady

\* a finished run over documents without any block, with the setup done
C18_Witness ==
    /\ mcPc = "exited" /\ mcExit = 0 /\ Len(results) > 0
    /\ \A i \in 1..Len(results) : results[i].totalDiagrams = 0
    /\ validatorReady

-----------------------------------------------------------------------------
(* check.mjs: the pipeline checker, with extract.mjs and validate.mjs run as
   subprocesses through execSync *)

CkArgSets ==
    { <<>>, <<"doc.md">>, <<"doc.md", "--quiet">>, <<"doc.md", "--keep-temp">>,
      <<"doc.md", "tmp">>, <<"doc.md", "tmp", "--keep-temp">> }

\* const outputDir = args[1] || '.mermaid_temp'
outputDir == IF Len(ckArgs) >= 2 THEN ckArgs[2] ELSE ".mermaid_temp"
\* const keepTemp = args.includes('--keep-temp')
keepTemp == "--keep-temp" \in Range(ckArgs)

\* the output directory when it does not exist
AbsentDir == [exists |-> FALSE, files |-> {}]

\* the artifact extract.mjs writes for a block
ArtifactName(block) == <<"block", block.index>>

\* main of extract.mjs: what the subprocess prints, its exit code and the
\* output directory it leaves.  readable is whether readFileSync succeeds,
\* doc the text it reads, ioOk whether mkdirSync and writeFileSync succeed.
extractMain(readable, doc, dir, ioOk) ==
    IF ~readable
    THEN [ exit |-> 1, json |-> FALSE, dir |-> dir, found |-> -1 ]
    ELSE LET bs == extractMermaidBlocks(doc)
         IN IF Len(bs) = 0
            THEN [ exit |-> 0, json |-> FALSE, dir |-> dir, found |-> 0 ]
            ELSE IF ~ioOk
            THEN [ exit |-> 1, json |-> FALSE, dir |-> dir, found |-> Len(bs) ]
            ELSE [ exit |-> 0, json |-> TRUE,
                   dir |-> [ exists |-> TRUE,
                             files |-> dir.files \cup
                                 { ArtifactName(bs[i]) : i \in 1..Len(bs) } ],
                   found |-> Len(bs),
                   value |-> [ built |-> TRUE,
                               totalBlocks |-> Len(bs),
                               blocks |-> [ i \in 1..Len(bs) |->
                                   [ fileName |-> ArtifactName(bs[i]),
                                     lineStart |-> bs[i].lineStart,
                                     lineEnd |-> bs[i].lineEnd,
                                     index |-> bs[i].index ] ] ] ]

\* a plausible slip: a validate.mjs run that reuses a validator set up earlier
validateMain_SetupReused(fileExists, setupOk, o) ==
    IF ~fileExists
    THEN [ exit |-> 1, json |-> FALSE, setup |-> 0, failure |-> "validate_failed" ]
    ELSE LET r == validator(o)
         IN IF r.threw
            THEN [ exit |-> 1, json |-> FALSE, setup |-> 0, failure |-> "validate_failed" ]
            ELSE [ exit |-> IF r.valid THEN 0 ELSE 1, json |-> TRUE, setup |-> 0,
                   failure |-> "none", valid |-> r.valid, error |-> r.error ]

\* main of validate.mjs on one artifact: setupOk is whether
\* setupMermaidValidator succeeds, o what mermaid.parse does
validateMain(fileExists, setupOk, o) ==
    IF ~fileExists
    THEN [ exit |-> 1, json |-> FALSE, setup |-> 0, failure |-> "validate_failed" ]
    ELSE IF ~setupOk
    THEN [ exit |-> 1, json |-> FALSE, setup |-> 0, failure |-> "setup_failed" ]
    ELSE LET r == validator(o)
         IN IF r.threw
            THEN [ exit |-> 1, json |-> FALSE, setup |-> 1, failure |-> "validate_failed" ]
            ELSE [ exit |-> IF r.valid THEN 0 ELSE 1, json |-> TRUE, setup |-> 1,
                   failure |-> "none", valid |-> r.valid, error |-> r.error ]

CkInit ==
    /\ ckArgs \in CkArgSets
    /\ ckDoc \in { "missing", "unreadable", "ok" }
    /\ ckPc = "start"
    /\ extractResult = NoReport /\ blocks = <<>> /\ blockPos = 0
    /\ validCount = 0 /\ invalidCount = 0 /\ result = NoReport
    /\ docBlockCount = -1 /\ syntaxErrors = {} /\ opError = "none"
    /\ setupRuns = 0
    /\ outDir \in { AbsentDir, [exists |-> TRUE, files |-> { <<"kept", 0>> }] }
    /\ preFiles = outDir.files
    /\ rmCalls = 0 /\ ckExit = -1
    /\ XIdle /\ McIdle

CkExitWith(code) == ckExit' = code /\ ckPc' = "exited"

\* main: no arguments, usage, process.exit(1)
CK_Usage ==
    /\ ckPc = "start" /\ Len(ckArgs) = 0
    /\ CkExitWith(1)
    /\ UNCHANGED <<ckArgs, ckDoc, preFiles, extractResult, blocks, blockPos, validCount,
                   invalidCount, result, docBlockCount, syntaxErrors, opError,
                   setupRuns, outDir, rmCalls, xvars, mcvars>>

\* main: if (!fs.existsSync(mdFile)) process.exit(1)
CK_NotFound ==
    /\ ckPc = "start" /\ Len(ckArgs) > 0 /\ ckDoc = "missing"
    /\ opError' = "not_found"
    /\ CkExitWith(1)
    /\ UNCHANGED <<ckArgs, ckDoc, preFiles, extractResult, blocks, blockPos, validCount,
                   invalidCount, result, docBlockCount, syntaxErrors,
                   setupRuns, outDir, rmCalls, xvars, mcvars>>

\* main, step 1: extractBlocks (execSync of extract.mjs throws on a non-zero
\* exit, JSON.parse throws on output that is not JSON) and the zero-block exit
CK_Extract ==
    /\ ckPc = "start" /\ Len(ckArgs) > 0 /\ ckDoc # "missing"
    /\ \E doc \in (IF ckDoc = "ok" THEN CheckerDocs ELSE { <<>> }),
          ioOk \in BOOLEAN :
        LET run == extractMain(ckDoc = "ok", doc, outDir, ioOk)
        IN /\ outDir' = run.dir
           /\ docBlockCount' = run.found
           /\ IF run.exit # 0
              THEN /\ opError' = "extract_failed"
                   /\ ckPc' = "catch"
                   /\ UNCHANGED <<extractResult, ckExit>>
              ELSE IF ~run.json
              THEN /\ ckPc' = "catch"
                   /\ UNCHANGED <<extractResult, ckExit, opError>>
              ELSE IF run.value.totalBlocks = 0
              THEN /\ extractResult' = run.value
                   /\ CkExitWith(0)
                   /\ UNCHANGED opError
              ELSE /\ extractResult' = run.value
                   /\ ckPc' = "loop"
                   /\ UNCHANGED <<ckExit, opError>>
    /\ UNCHANGED <<ckArgs, ckDoc, preFiles, blocks, blockPos, validCount, invalidCount,
                   result, syntaxErrors, setupRuns, rmCalls, xvars, mcvars>>

\* the body of the block loop of main: validateFile (execSync throws on a
\* non-zero exit), blocks.push, the two counters
tally(st, blockInfo, run) ==
    IF run.exit # 0 \/ ~run.json
    THEN [ st EXCEPT !.threw = TRUE ]
    ELSE [ st EXCEPT
            !.blocks = Append(st.blocks,
                [ fileName |-> blockInfo.fileName, lineStart |-> blockInfo.lineStart,
                  lineEnd |-> blockInfo.lineEnd, index |-> blockInfo.index,
                  valid |-> run.valid, error |-> run.error ]),
            !.validCount = IF run.valid THEN st.validCount + 1 ELSE st.validCount,
            !.invalidCount = IF run.valid THEN st.invalidCount ELSE st.invalidCount + 1 ]

\* main, step 2: one iteration of for (const blockInfo of extractResult.blocks)
CK_ValidateBlock ==
    /\ ckPc = "loop" /\ blockPos < Len(extractResult.blocks)
    /\ \E setupOk \in BOOLEAN, o \in ParseOutcomes :
        LET blockInfo == extractResult.blocks[blockPos + 1]
            run == validateMain(blockInfo.fileName \in outDir.files, setupOk, o)
            st == tally([ blocks |-> blocks, validCount |-> validCount,
                          invalidCount |-> invalidCount, threw |-> FALSE ],
                        blockInfo, run)
        IN /\ setupRuns' = setupRuns + run.setup
           /\ syntaxErrors' = IF run.json /\ ~run.valid
                              THEN syntaxErrors \cup { blockInfo.index }
                              ELSE syntaxErrors
           /\ opError' = IF run.failure # "none" THEN run.failure ELSE opError
           /\ blocks' = st.blocks
           /\ validCount' = st.validCount
           /\ invalidCount' = st.invalidCount
           /\ IF st.threw
              THEN ckPc' = "catch" /\ blockPos' = blockPos
              ELSE ckPc' = "loop" /\ blockPos' = blockPos + 1
    /\ UNCHANGED <<ckArgs, ckDoc, preFiles, extractResult, result, docBlockCount, outDir,
                   rmCalls, ckExit, xvars, mcvars>>

\* main, step 3: the result object (then printed, or written as JSON)
CK_Report ==
    /\ ckPc = "loop" /\ blockPos = Len(extractResult.blocks)
    /\ result' = [ built |-> TRUE, totalBlocks |-> extractResult.totalBlocks,
                   validCount |-> validCount, invalidCount |-> invalidCount,
                   blocks |-> blocks ]
    /\ ckPc' = "finish"
    /\ UNCHANGED <<ckArgs, ckDoc, preFiles, extractResult, blocks, blockPos, validCount,
                   invalidCount, docBlockCount, syntaxErrors, opError, setupRuns,
                   outDir, rmCalls, ckExit, xvars, mcvars>>

\* cleanup(outputDir): fs.rmSync(outputDir, { recursive: true, force: true })
cleanup(dir) == [exists |-> FALSE, files |-> {}]

\* process.exit(invalidCount > 0 ? 1 : 0)
finalExit(n) == IF n > 0 THEN 1 ELSE 0

\* main: if (!keepTemp) cleanup(outputDir); process.exit(invalidCount > 0 ? 1 : 0)
CK_Finish ==
    /\ ckPc = "finish"
    /\ IF keepTemp THEN UNCHANGED <<outDir, rmCalls>>
       ELSE outDir' = cleanup(outDir) /\ rmCalls' = rmCalls + 1
    /\ CkExitWith(finalExit(invalidCount))
    /\ UNCHANGED <<ckArgs, ckDoc, preFiles, extractResult, blocks, blockPos, validCount,
                   invalidCount, result, docBlockCount, syntaxErrors, opError,
                   setupRuns, xvars, mcvars>>

\* main: catch (error) { console.error; cleanup(outputDir); process.exit(1) }
CK_Catch ==
    /\ ckPc = "catch"
    /\ outDir' = cleanup(outDir) /\ rmCalls' = rmCalls + 1
    /\ CkExitWith(1)
    /\ UNCHANGED <<ckArgs, ckDoc, preFiles, extractResult, blocks, blockPos, validCount,
                   invalidCount, result, docBlockCount, syntaxErrors, opError,
                   setupRuns, xvars, mcvars>>

CkNext ==
    \/ CK_Usage \/ CK_NotFound \/ CK_Extract \/ CK_ValidateBlock
    \/ CK_Report \/ CK_Finish \/ CK_Catch

SpecCK == CkInit /\ [][CkNext]_vars

\* C13: with --keep-temp the run never removes the output directory, whatever
\* way it ends.
C13_KeepTempNeverRemoves ==
    [][(keepTemp /\ outDir.exists) => outDir'.exists]_vars

\* C19: each validate.mjs subprocess performs the validator setup, so a run
\* that reports on N blocks has performed it N times, once per block.
C19_SetupOncePerBlock ==
    (ckPc = "exited" /\ result.built) =>
        /\ docBlockCount >= 1
        /\ setupRuns = docBlockCount

\* C19 as stated: the setup is performed exactly once for the whole run
C19_SetupOncePerRun ==
    (ckPc = "exited" /\ result.built /\ docBlockCount >= 1) => setupRuns = 1

\* a run over a two-block document that ended with a report
C19_Witness ==
    /\ ckPc = "exited" /\ result.built
    /\ docBlockCount = 2 /\ Len(result.blocks) = 2 /\ setupRuns = 2

\* C20: every file the output directory held before the run is still there
\* after the run.
C20_PreexistingFilesKept ==
    ckPc = "exited" => preFiles \subseteq outDir.files

\* a plausible slip: the setup of a validate.mjs run that went on to validate
\* is not counted

-----------------------------------------------------------------------------
(* Both checkers: each behaviour is one run of one of the two programs *)

Init == McInit \/ CkInit

Next == McNext \/ CkNext

Spec == Init /\ [][Next]_vars

-----------------------------------------------------------------------------
(* Claims on the two checkers *)

\* C1: in the pipeline checker, when validate.mjs finds a syntax error in a
\* block, the run still validates every block and ends with a Report in which
\* that block has valid = false and is counted in invalidCount.
C1_InvalidBlockNotAborting ==
    (ckPc = "exited" /\ syntaxErrors # {}) =>
        /\ result.built
        /\ blockPos = Len(extractResult.blocks)
        /\ \A i \in syntaxErrors : result.blocks[i + 1].valid = FALSE
        /\ result.invalidCount >= Cardinality(syntaxErrors)

\* C2: in the pipeline checker, an existing document with zero diagram blocks
\* ends the process with exit code 0.
C2_ZeroBlocksExitZero ==
    (ckPc = "exited" /\ ckDoc = "ok" /\ docBlockCount = 0) => ckExit = 0

\* C3: in the single-process checker, over a non-empty list of matched
\* documents, the exit code is non-zero iff some processed document has
\* invalidCount > 0 or some matched document could not be read or validated.
C3_ExitIffFailure ==
    (mcPc = "exited" /\ Len(filePaths) > 0) =>
        ((mcExit # 0) <=> (hasErrors(results) \/ failedFiles # {}))

\* C4: in the pipeline checker, a run that met an operational error never ends
\* with exit code 1, the code of an invalid block.
C4_OperationalErrorNotOne ==
    (ckPc = "exited" /\ opError # "none") => ckExit # 1

\* C5: validCount + invalidCount equals the number of records appended so far
\* after each block, and equals totalBlocks (totalDiagrams) in every Report.
C5_CountsAddUp ==
    /\ fileResult.built =>
        /\ fileResult.validCount + fileResult.invalidCount = Len(fileResult.diagrams)
        /\ Len(fileResult.diagrams) = mcBlockIdx
        /\ mcBlockIdx = Len(mcBlocks) =>
             fileResult.validCount + fileResult.invalidCount = fileResult.totalDiagrams
    /\ \A k \in 1..Len(results) :
        results[k].validCount + results[k].invalidCount = results[k].totalDiagrams
    /\ validCount + invalidCount = Len(blocks)
    /\ Len(blocks) = blockPos
    /\ result.built => result.validCount + result.invalidCount = result.totalBlocks

\* a Report about to be returned with one valid and one invalid block
C5_Witness ==
    /\ mcPc = "blocks" /\ fileResult.built /\ mcBlockIdx = Len(mcBlocks)
    /\ fileResult.validCount = 1 /\ fileResult.invalidCount = 1
    /\ fileResult.totalDiagrams = 2

\* C6: the i-th record of a Report's blocks list carries index i (0, 1, 2, ...),
\* with no gap, duplicate or reordering, whatever the validation outcomes.
C6_ReportOrder ==
    /\ fileResult.built =>
        \A i \in 1..Len(fileResult.diagrams) : fileResult.diagrams[i].index = i - 1
    /\ \A k \in 1..Len(results) :
        /\ Len(results[k].indices) = results[k].totalDiagrams
        /\ \A i \in 1..Len(results[k].indices) : results[k].indices[i] = i - 1
    /\ \A i \in 1..Len(blocks) : blocks[i].index = i - 1
    /\ result.built =>
        /\ Len(result.blocks) = result.totalBlocks
        /\ \A i \in 1..Len(result.blocks) : result.blocks[i].index = i - 1

\* a Report about to be returned whose first block is invalid and second valid
C6_Witness ==
    /\ mcPc = "blocks" /\ fileResult.built /\ mcBlockIdx = Len(mcBlocks)
    /\ Len(fileResult.diagrams) = 2
    /\ ~fileResult.diagrams[1].valid /\ fileResult.diagrams[2].valid

====
